---- MODULE Spec2Model ----
(***************************************************************************)
(* Streaming-to-speech pipeline of the forensic avatar frontend:           *)
(*   - useTextToSpeech (src/src/hooks/useTextToSpeech.ts): the speech      *)
(*     playback controller, its sentence segmenter and text cleaner;       *)
(*   - analyzeStream (src/src/lib/api.ts): the server-sent-event decoder;  *)
(*   - ChatInterface (src/src/components/ChatInterface.tsx): the           *)
(*     orchestrator that wires the two together.                           *)
(* Text is a sequence of one-character strings.                            *)
(***************************************************************************)
EXTENDS Integers, Sequences, FiniteSets, TLC

(***************************************************************************)
(* Bounds of the model.                                                    *)
(***************************************************************************)
\* number of feedToken / speak calls of one behaviour
MaxInputs == 3
\* number of cancelled utterances whose end/error event is still to come
MaxLate == 1
\* number of analyses that handleSubmit starts in one behaviour
MaxStreams == 1
\* number of analyses of one behaviour in which turn follows turn
MaxTurns == 2
\* number of direct analyzeStream calls of one behaviour
MaxCalls == 1

(***************************************************************************)
(* Program constants.                                                      *)
(***************************************************************************)
STREAM_PAUSE_THRESHOLD == 250
\* setTimeout(processText, 100)
CONTINUE_DELAY == 100
\* the clock advances in steps of the continuation delay
TickMs == CONTINUE_DELAY

(***************************************************************************)
(* Strings.                                                                *)
(***************************************************************************)
Min(a, b) == IF a < b THEN a ELSE b
Max(a, b) == IF a > b THEN a ELSE b

\* \s of a JavaScript regular expression, and what String.prototype.trim strips
Whitespace == {" ", "\n", "\t", "\r"}
\* line terminators, after which ^ matches under the m flag
LineTerminators == {"\n", "\r"}
\* [.!?]
Terminators == {".", "!", "?"}

RECURSIVE TrimStart(_)
TrimStart(s) ==
    IF s # <<>> /\ Head(s) \in Whitespace THEN TrimStart(Tail(s)) ELSE s

RECURSIVE TrimEnd(_)
TrimEnd(s) ==
    IF s # <<>> /\ s[Len(s)] \in Whitespace
    THEN TrimEnd(SubSeq(s, 1, Len(s) - 1))
    ELSE s

\* String.prototype.trim
Trim(s) == TrimEnd(TrimStart(s))

\* text.slice(n): the text after its first n characters
Slice(s, n) == SubSeq(s, n + 1, Len(s))

\* text.startsWith(p)
StartsWith(s, p) == Len(s) >= Len(p) /\ SubSeq(s, 1, Len(p)) = p

\* s is a prefix of t
IsPrefix(s, t) == Len(s) <= Len(t) /\ SubSeq(t, 1, Len(s)) = s

\* text.match(/[.!?]\s*$/): a terminator, then only whitespace up to the end
EndsWithTerminator(s) ==
    LET t == TrimEnd(s) IN t # <<>> /\ t[Len(t)] \in Terminators

\* index of the first terminator of s, 0 when it has none: where the lazy
\* group of /^(.*?[.!?])\s*/s ends (the s flag lets . match a newline)
FirstTerminator(s) ==
    IF \E i \in 1..Len(s) : s[i] \in Terminators
    THEN CHOOSE i \in 1..Len(s) :
            /\ s[i] \in Terminators
            /\ \A j \in 1..(i - 1) : s[j] \notin Terminators
    ELSE 0

\* the number of whitespace characters of s from index i on: a greedy \s*
RECURSIVE WhitespaceRun(_, _)
WhitespaceRun(s, i) ==
    IF i <= Len(s) /\ s[i] \in Whitespace THEN 1 + WhitespaceRun(s, i + 1) ELSE 0

(***************************************************************************)
(* cleanTextForSpeech: a chain of String.prototype.replace calls.          *)
(***************************************************************************)
\* the class of the first replace: * # @ $ % ^ & ( ) _ + = [ ] { } | \ < > / ~,
\* the backtick and the double quote; the last three are written by name
SymbolChars ==
    {"*", "#", "@", "$", "%", "^", "&", "(", ")", "_", "+", "=", "[", "]",
     "{", "}", "|", "backslash", "<", ">", "/", "~", "backtick", "dquote"}
\* [-_]
DashChars == {"-", "_"}
\* the class of "-", U+2022 and U+00B7; the last two are written "bullet" and
\* "middot"
BulletChars == {"-", "bullet", "middot"}

\* .replace(/[...]/g, ''): every character of the class removed
RemoveChars(s, class) == SelectSeq(s, LAMBDA c : c \notin class)

\* the length of the run of characters of the class that starts at index i
RECURSIVE RunLength(_, _, _)
RunLength(s, i, class) ==
    IF i <= Len(s) /\ s[i] \in class THEN 1 + RunLength(s, i + 1, class) ELSE 0

\* .replace(/[-_]{2,}/g, ' ')
RECURSIVE CollapseDashes(_)
CollapseDashes(s) ==
    IF s = <<>> THEN <<>>
    ELSE LET n == RunLength(s, 1, DashChars) IN
         IF n >= 2 THEN <<" ">> \o CollapseDashes(Slice(s, n))
         ELSE <<Head(s)>> \o CollapseDashes(Tail(s))

\* .replace(/^[\s]*[bullets]\s*/gm, ''): at a line start, whitespace, one bullet
\* marker and the whitespace after it are removed; the scan resumes where
\* the match ended
RECURSIVE StripBullets(_, _)
StripBullets(s, i) ==
    IF i > Len(s) THEN <<>>
    ELSE LET atLineStart == i = 1 \/ s[i - 1] \in LineTerminators
             lead == WhitespaceRun(s, i)
             b == i + lead
         IN IF atLineStart /\ b <= Len(s) /\ s[b] \in BulletChars
            THEN StripBullets(s, b + 1 + WhitespaceRun(s, b + 1))
            ELSE <<s[i]>> \o StripBullets(s, i + 1)

\* .replace(/cc/g, '') for a character c: pairs removed from left to right
RECURSIVE RemovePairs(_, _)
RemovePairs(s, c) ==
    IF s = <<>> THEN <<>>
    ELSE IF Len(s) >= 2 /\ s[1] = c /\ s[2] = c THEN RemovePairs(Slice(s, 2), c)
    ELSE <<Head(s)>> \o RemovePairs(Tail(s), c)

\* .replace(/\*\*/g, '').replace(/\*/g, '').replace(/__/g, '')
RemoveEmphasis(s) == RemovePairs(RemoveChars(RemovePairs(s, "*"), {"*"}), "_")

\* .replace(/_/g, ' ')
UnderscoreToSpace(s) == [i \in 1..Len(s) |-> IF s[i] = "_" THEN " " ELSE s[i]]

\* .replace(/\s+/g, ' ')
RECURSIVE CollapseWhitespace(_)
CollapseWhitespace(s) ==
    IF s = <<>> THEN <<>>
    ELSE LET n == WhitespaceRun(s, 1) IN
         IF n >= 1 THEN <<" ">> \o CollapseWhitespace(Slice(s, n))
         ELSE <<Head(s)>> \o CollapseWhitespace(Tail(s))

cleanTextForSpeech(text) ==
    Trim(CollapseWhitespace(UnderscoreToSpace(RemoveEmphasis(
        StripBullets(CollapseDashes(RemoveChars(text, SymbolChars)), 1)))))


(***************************************************************************)
(* getBestVoice.  A voice is a record of its name, voiceURI and lang, each *)
(* a sequence of characters.                                               *)
(***************************************************************************)
\* the most voices of a catalog
MaxVoices == 2

UpperCase ==
    <<"A", "B", "C", "D", "E", "F", "G", "H", "I", "J", "K", "L", "M", "N", "O", "P", "Q", "R", "S", "T", "U", "V", "W", "X", "Y", "Z">>
LowerCase ==
    <<"a", "b", "c", "d", "e", "f", "g", "h", "i", "j", "k", "l", "m", "n", "o", "p", "q", "r", "s", "t", "u", "v", "w", "x", "y", "z">>
\* String.prototype.toLowerCase
toLowerCase(s) ==
    [i \in 1..Len(s) |->
        IF \E k \in 1..Len(UpperCase) : UpperCase[k] = s[i]
        THEN LowerCase[CHOOSE k \in 1..Len(UpperCase) : UpperCase[k] = s[i]]
        ELSE s[i]]

\* String.prototype.includes
Includes(s, p) ==
    \E i \in 0..(Len(s) - Len(p)) : SubSeq(s, i + 1, i + Len(p)) = p

preferredVoices ==
    <<
      <<"D", "a", "n", "i", "e", "l", " ", "(", "E", "n", "h", "a", "n",
        "c", "e", "d", ")">>,
      <<"A", "l", "e", "x">>,
      <<"D", "a", "n", "i", "e", "l">>,
      <<"T", "o", "m">>,
      <<"O", "l", "i", "v", "e", "r">>,
      <<"M", "i", "c", "r", "o", "s", "o", "f", "t", " ", "G", "u", "y",
        " ", "O", "n", "l", "i", "n", "e", " ", "(", "N", "a", "t", "u",
        "r", "a", "l", ")">>,
      <<"M", "i", "c", "r", "o", "s", "o", "f", "t", " ", "D", "a", "v",
        "i", "d", " ", "O", "n", "l", "i", "n", "e", " ", "(", "N", "a",
        "t", "u", "r", "a", "l", ")">>,
      <<"M", "i", "c", "r", "o", "s", "o", "f", "t", " ", "M", "a", "r",
        "k", " ", "O", "n", "l", "i", "n", "e", " ", "(", "N", "a", "t",
        "u", "r", "a", "l", ")">>,
      <<"M", "i", "c", "r", "o", "s", "o", "f", "t", " ", "R", "y", "a",
        "n", " ", "O", "n", "l", "i", "n", "e", " ", "(", "N", "a", "t",
        "u", "r", "a", "l", ")">>,
      <<"M", "i", "c", "r", "o", "s", "o", "f", "t", " ", "G", "u", "y">>,
      <<"M", "i", "c", "r", "o", "s", "o", "f", "t", " ", "D", "a", "v",
        "i", "d">>,
      <<"M", "i", "c", "r", "o", "s", "o", "f", "t", " ", "M", "a", "r",
        "k">>,
      <<"G", "o", "o", "g", "l", "e", " ", "U", "K", " ", "E", "n", "g",
        "l", "i", "s", "h", " ", "M", "a", "l", "e">>,
      <<"G", "o", "o", "g", "l", "e", " ", "U", "S", " ", "E", "n", "g",
        "l", "i", "s", "h", " ", "M", "a", "l", "e">>
    >>

\* the names looked for by enhancedMaleVoice
EnhancedMaleNames ==
    {<<"m", "a", "l", "e">>,
     <<"g", "u", "y">>,
     <<"d", "a", "v", "i", "d">>,
     <<"m", "a", "r", "k">>,
     <<"d", "a", "n", "i", "e", "l">>,
     <<"j", "a", "m", "e", "s">>,
     <<"t", "o", "m">>}
\* the names looked for by maleVoice
MaleNames ==
    EnhancedMaleNames \cup {<<"a", "l", "e", "x">>, <<"o", "l", "i", "v", "e", "r">>}
QualityNames ==
    {<<"n", "a", "t", "u", "r", "a", "l">>,
     <<"n", "e", "u", "r", "a", "l">>,
     <<"p", "r", "e", "m", "i", "u", "m">>,
     <<"e", "n", "h", "a", "n", "c", "e", "d">>}

\* v.lang.startsWith('en')
IsEnglish(v) == StartsWith(v.lang, <<"e", "n">>)
NameHas(v, words) == \E w \in words : Includes(toLowerCase(v.name), w)

\* the callbacks of the find calls
MatchesPreferred(v, preferred) ==
    Includes(v.name, preferred) \/ Includes(v.voiceURI, preferred)
IsEnhancedMale(v) ==
    IsEnglish(v) /\ NameHas(v, EnhancedMaleNames) /\ NameHas(v, QualityNames)
IsMale(v) == IsEnglish(v) /\ NameHas(v, MaleNames)

\* Array.prototype.find: the first of the places of the array whose voice
\* satisfies the callback, 0 when there is none
Find(places) ==
    IF places = {} THEN 0
    ELSE CHOOSE i \in places : \A j \in places : i <= j

\* the places of the voices of the array
Places(voices) == 1..Len(voices)

\* null
NoVoice == [name |-> <<>>, voiceURI |-> <<>>, lang |-> <<>>]

\* the for loop over preferredVoices from its k-th name on, with what
\* follows the loop
RECURSIVE PreferredFrom(_, _)
PreferredFrom(voices, k) ==
    IF k > Len(preferredVoices)
    THEN LET enhancedMaleVoice ==
                 Find({i \in Places(voices) : IsEnhancedMale(voices[i])})
             maleVoice == Find({i \in Places(voices) : IsMale(voices[i])})
             englishVoice == Find({i \in Places(voices) : IsEnglish(voices[i])})
         IN IF enhancedMaleVoice > 0 THEN voices[enhancedMaleVoice]
            ELSE IF maleVoice > 0 THEN voices[maleVoice]
            ELSE IF englishVoice > 0 THEN voices[englishVoice]
            ELSE voices[1]
    ELSE LET voice ==
                 Find({i \in Places(voices) :
                         MatchesPreferred(voices[i], preferredVoices[k])})
         IN IF voice > 0 THEN voices[voice] ELSE PreferredFrom(voices, k + 1)

\* a selection that takes the first voice of the catalog that matches any
\* preferred name
getBestVoice_catalogOrder(availableVoices) ==
    LET voice ==
            Find({i \in Places(availableVoices) :
                    \E k \in 1..Len(preferredVoices) :
                        MatchesPreferred(availableVoices[i], preferredVoices[k])})
    IN IF availableVoices = <<>> THEN NoVoice
       ELSE IF voice > 0 THEN availableVoices[voice]
       ELSE PreferredFrom(availableVoices, Len(preferredVoices) + 1)

getBestVoice(availableVoices) ==
    IF Len(availableVoices) = 0 THEN NoVoice
    ELSE PreferredFrom(availableVoices, 1)

\* the voices an engine may offer
Voices ==
    {
     [name |-> <<"D", "a", "n", "i", "e", "l">>,
      voiceURI |-> <<"D", "a", "n", "i", "e", "l">>,
      lang |-> <<"e", "n", "-", "G", "B">>],
     [name |-> <<"A", "l", "e", "x">>,
      voiceURI |-> <<"A", "l", "e", "x">>,
      lang |-> <<"e", "n", "-", "U", "S">>],
     [name |-> <<"T", "o", "m", "a", "s">>,
      voiceURI |-> <<"T", "o", "m", "a", "s">>,
      lang |-> <<"e", "s", "-", "E", "S">>],
     [name |-> <<"J", "a", "m", "e", "s", " ", "(", "P", "r", "e", "m", "i", "u", "m",
        ")">>,
      voiceURI |-> <<"J", "a", "m", "e", "s", " ", "(", "P", "r", "e", "m", "i", "u", "m",
        ")">>,
      lang |-> <<"e", "n", "-", "G", "B">>],
     [name |-> <<"J", "a", "m", "e", "s">>,
      voiceURI |-> <<"J", "a", "m", "e", "s">>,
      lang |-> <<"e", "n", "-", "A", "U">>],
     [name |-> <<"G", "o", "o", "g", "l", "e", " ", "U", "K", " ", "E", "n", "g", "l",
        "i", "s", "h", " ", "F", "e", "m", "a", "l", "e">>,
      voiceURI |-> <<"G", "o", "o", "g", "l", "e", " ", "U", "K", " ", "E", "n", "g", "l",
        "i", "s", "h", " ", "F", "e", "m", "a", "l", "e">>,
      lang |-> <<"e", "n", "-", "G", "B">>],
     [name |-> <<"S", "a", "m", "a", "n", "t", "h", "a">>,
      voiceURI |-> <<"S", "a", "m", "a", "n", "t", "h", "a">>,
      lang |-> <<"e", "n", "-", "U", "S">>],
     [name |-> <<"A", "n", "n", "a">>,
      voiceURI |-> <<"A", "n", "n", "a">>,
      lang |-> <<"d", "e", "-", "D", "E">>],
     [name |-> <<"C", "o", "m", "p", "a", "c", "t">>,
      voiceURI |-> <<"u", "r", "n", ":", "A", "l", "e", "x">>,
      lang |-> <<"e", "n", "-", "U", "S">>]
    }

(***************************************************************************)
(* The speech playback controller (useTextToSpeech) and the platform       *)
(* speech engine it drives.  The state is one record, so that a caller's   *)
(* handler can apply several operations in one step:                       *)
(*   pendingText, isProcessing, streamActive, isStreamingMode, isSpeaking  *)
(*       the refs and the state of the hook;                               *)
(*   sinceLastToken   Date.now() - lastTokenTimeRef.current, kept up to    *)
(*       the pause threshold (the code only compares it with it);          *)
(*   active    utterances given to speechSynthesis.speak that have neither *)
(*       ended, errored nor been cancelled;                                *)
(*   late      cancelled utterances whose end/error event is still to be   *)
(*       delivered to the handlers the controller set on them;             *)
(*   timers    the remaining delay of each pending                         *)
(*       setTimeout(processText, 100);                                     *)
(*   received  the text given by speakToken/speak since the last           *)
(*       stop/speak;                                                       *)
(*   spoken    the texts of the utterances given to the engine since the   *)
(*       last stop/speak, in order;                                        *)
(*   resetBy   what emptied received and spoken last;                      *)
(*   flushed   flush was called since the last stop/speak;                 *)
(*   sinceLastFeed  the time since the last speakToken call, kept up to    *)
(*       the pause threshold;                                              *)
(*   held      a completion found text pending and the stream paused, and  *)
(*       no speakToken, flush, speak or stop was called since;             *)
(*   owed      the utterance that the last flush owes for the trailing     *)
(*       fragment it closed with a period, <<>> when there is none or a    *)
(*       stop/speak discarded it;                                          *)
(*   paid      the owed utterance was given to the engine;                 *)
(*   drained   the buffer was empty when or after it was given;            *)
(*   staleTimers   how many of the pending timers, the first ones, were    *)
(*       scheduled before the last stop;                                   *)
(*   voice     the voice getBestVoice returned for the last utterance;     *)
(*   fed       the text put into the buffer since the last stop/speak: the *)
(*       text received and the periods that flush and speak appended;      *)
(*   taken     the raw sentences given to the engine since the last        *)
(*       stop/speak, one after the other.                                  *)
(***************************************************************************)
TtsInit ==
    [pendingText |-> <<>>, isProcessing |-> FALSE, streamActive |-> FALSE,
     isStreamingMode |-> FALSE, isSpeaking |-> FALSE,
     sinceLastToken |-> STREAM_PAUSE_THRESHOLD,
     active |-> 0, late |-> 0, timers |-> <<>>,
     received |-> <<>>, spoken |-> <<>>, resetBy |-> "init", flushed |-> FALSE,
     sinceLastFeed |-> STREAM_PAUSE_THRESHOLD, held |-> FALSE,
     owed |-> <<>>, paid |-> FALSE, drained |-> FALSE, staleTimers |-> 0,
     availableVoices |-> <<>>, voice |-> NoVoice,
     fed |-> <<>>, taken |-> <<>>]

\* speechSynthesis.speak(new SpeechSynthesisUtterance(sentence))
EngineSpeak(s, sentence) ==
    LET paid == s.paid \/ (s.owed # <<>> /\ sentence = s.owed) IN
    [s EXCEPT !.active = @ + 1, !.spoken = Append(@, sentence),
              !.paid = paid, !.drained = @ \/ (paid /\ s.pendingText = <<>>)]

\* a cancel that drops the utterance being spoken only
EngineCancel_dropsOne(s, n) == [s EXCEPT !.active = Max(@ - 1, 0), !.late = @ + n]

\* speechSynthesis.cancel(): every utterance of the queue is dropped; n of them
\* still get their end/error event delivered afterwards
EngineCancel(s, n) == [s EXCEPT !.active = 0, !.late = @ + n]

\* the numbers of late events a cancel may leave behind
LateChoices(s) == {n \in 0..s.active : s.late + n <= MaxLate}

isStreamActive(s) ==
    IF ~s.streamActive THEN FALSE
    ELSE s.sinceLastToken < STREAM_PAUSE_THRESHOLD

\* a slice by the length of the trimmed sentence instead of the match
MatchEnd_trimmedLength(text, k) == Len(Trim(SubSeq(text, 1, k)))

\* the end of the match of /^(.*?[.!?])\s*/s whose group ends at index k
MatchEnd(text, k) == k + WhitespaceRun(text, k + 1)

\* text.match(/^(.*?[.!?])\s*/s) and what processText takes from the match:
\* the trimmed group as the raw sentence, the text after the match as the
\* new buffer; without a match the buffer is the text
sentenceMatch(text) ==
    LET k == FirstTerminator(text) IN
    IF k > 0
    THEN [found |-> TRUE, sentence |-> Trim(SubSeq(text, 1, k)),
          remainder |-> Slice(text, MatchEnd(text, k))]
    ELSE [found |-> FALSE, sentence |-> <<>>, remainder |-> text]

RECURSIVE processText_speaksFragment(_)
\* a processText that does not wait for a terminator in streaming mode
processText_speaksFragment(s) ==
    IF s.isProcessing \/ Trim(s.pendingText) = <<>> THEN s
    ELSE LET m == sentenceMatch(s.pendingText)
             sentence == cleanTextForSpeech(
                             IF m.found THEN m.sentence ELSE Trim(s.pendingText))
             s1 == [s EXCEPT !.pendingText = IF m.found THEN m.remainder ELSE <<>>]
         IN IF sentence = <<>>
            THEN IF s1.pendingText # <<>> THEN processText_speaksFragment(s1) ELSE s1
            ELSE EngineSpeak([s1 EXCEPT !.isProcessing = TRUE, !.isSpeaking = TRUE,
                                        !.taken = @ \o (IF m.found THEN m.sentence
                                                        ELSE Trim(s.pendingText))],
                             sentence)

RECURSIVE processText(_)
\* processText from the cleaning of the raw sentence on; s already holds the
\* shortened buffer
Dispatch(s, rawSentence) ==
    LET sentence == cleanTextForSpeech(rawSentence) IN
    IF sentence = <<>>
    THEN IF s.pendingText # <<>> THEN processText(s) ELSE s
    ELSE EngineSpeak([s EXCEPT !.isProcessing = TRUE, !.isSpeaking = TRUE,
                               !.voice = getBestVoice(s.availableVoices),
                               !.taken = @ \o rawSentence],
                     sentence)

processText(s) ==
    IF s.isProcessing \/ Trim(s.pendingText) = <<>> THEN s
    ELSE LET text == s.pendingText
             m == sentenceMatch(text)
         IN IF m.found
            THEN Dispatch([s EXCEPT !.pendingText = m.remainder], m.sentence)
            ELSE IF ~s.isStreamingMode
            THEN Dispatch([s EXCEPT !.pendingText = <<>>], Trim(text))
            ELSE s

\* utterance.onend
onend(s) ==
    LET s1 == [s EXCEPT !.isProcessing = FALSE] IN
    IF Trim(s1.pendingText) # <<>>
    THEN IF ~s1.isStreamingMode \/ isStreamActive(s1)
         THEN [s1 EXCEPT !.timers = Append(@, CONTINUE_DELAY)]
         ELSE [s1 EXCEPT !.isSpeaking = FALSE, !.held = TRUE]
    ELSE [s1 EXCEPT !.isSpeaking = FALSE, !.isStreamingMode = FALSE]

\* utterance.onerror
onerror(s) ==
    LET s1 == [s EXCEPT !.isProcessing = FALSE] IN
    IF Trim(s1.pendingText) # <<>>
    THEN IF ~s1.isStreamingMode \/ isStreamActive(s1)
         THEN processText(s1)
         ELSE [s1 EXCEPT !.isSpeaking = FALSE, !.held = TRUE]
    ELSE [s1 EXCEPT !.isSpeaking = FALSE]

\* speak(text); n is the engine's choice in cancel
speak(s, text, n) ==
    LET s1 == [EngineCancel(s, n) EXCEPT
                  !.isStreamingMode = FALSE, !.streamActive = TRUE,
                  !.sinceLastToken = 0, !.isProcessing = FALSE,
                  !.pendingText = text,
                  !.received = text, !.spoken = <<>>, !.resetBy = "speak",
                  !.flushed = FALSE, !.held = FALSE, !.owed = <<>>,
                  !.paid = FALSE, !.drained = FALSE,
                  !.fed = text, !.taken = <<>>]
        s2 == IF ~EndsWithTerminator(s1.pendingText)
              THEN [s1 EXCEPT !.pendingText = @ \o <<".">>,
                              !.fed = @ \o <<".">>]
              ELSE s1
    IN processText(s2)

speakToken(s, token) ==
    LET s1 == [s EXCEPT !.pendingText = @ \o token, !.sinceLastToken = 0,
                        !.streamActive = TRUE, !.isStreamingMode = TRUE,
                        !.received = @ \o token, !.sinceLastFeed = 0,
                        !.held = FALSE, !.fed = @ \o token]
    IN IF ~s1.isProcessing /\ EndsWithTerminator(s1.pendingText)
       THEN processText(s1)
       ELSE s1

\* a stop that cancels the engine and resets the flags but keeps the buffer
stop_keepsBuffer(s, n) ==
    [EngineCancel(s, n) EXCEPT
        !.isProcessing = FALSE, !.streamActive = FALSE,
        !.isStreamingMode = FALSE, !.sinceLastToken = STREAM_PAUSE_THRESHOLD,
        !.isSpeaking = FALSE,
        !.received = <<>>, !.spoken = <<>>, !.resetBy = "stop",
        !.flushed = FALSE, !.held = FALSE, !.owed = <<>>, !.paid = FALSE,
        !.drained = FALSE, !.staleTimers = Len(s.timers),
        !.fed = <<>>, !.taken = <<>>]

\* stop(); n is the engine's choice in cancel
stop(s, n) ==
    [EngineCancel(s, n) EXCEPT
        !.pendingText = <<>>, !.isProcessing = FALSE, !.streamActive = FALSE,
        !.isStreamingMode = FALSE, !.sinceLastToken = STREAM_PAUSE_THRESHOLD,
        !.isSpeaking = FALSE,
        !.received = <<>>, !.spoken = <<>>, !.resetBy = "stop",
        !.flushed = FALSE, !.held = FALSE, !.owed = <<>>, !.paid = FALSE,
        !.drained = FALSE, !.staleTimers = Len(s.timers),
        !.fed = <<>>, !.taken = <<>>]

\* the part of the text after its last terminator
TrailingFragment(text) ==
    LET ends == {i \in 1..Len(text) : text[i] \in Terminators}
        last == IF ends = {} THEN 0 ELSE CHOOSE i \in ends : \A j \in ends : j <= i
    IN Slice(text, last)

flush(s) ==
    LET s1 == [s EXCEPT !.isStreamingMode = FALSE, !.streamActive = TRUE,
                        !.sinceLastToken = 0, !.flushed = TRUE, !.held = FALSE]
        s2 == IF Trim(s1.pendingText) # <<>> /\ ~EndsWithTerminator(s1.pendingText)
              THEN [s1 EXCEPT
                      !.pendingText = @ \o <<".">>,
                      !.fed = @ \o <<".">>,
                      !.owed = cleanTextForSpeech(
                                   Trim(TrailingFragment(s1.pendingText) \o <<".">>)),
                      !.paid = FALSE, !.drained = FALSE]
              ELSE s1
    IN IF ~s2.isProcessing THEN processText(s2) ELSE s2

\* the clock advances by TickMs
Elapse(s) ==
    [s EXCEPT !.sinceLastToken = Min(@ + TickMs, STREAM_PAUSE_THRESHOLD),
              !.sinceLastFeed = Min(@ + TickMs, STREAM_PAUSE_THRESHOLD),
              !.timers = [i \in 1..Len(@) |-> Max(@[i] - TickMs, 0)]]

(***************************************************************************)
(* The text the callers give the controller.                               *)
(***************************************************************************)
Hi == <<"H", "i", ".">>
Tokens ==
    {<<"a">>, <<".">>, <<" ">>, <<"*">>, <<" ", "a", "!">>, Hi}
SpeakTexts == {<<"a", ".", " ", "a">>, <<"*">>}

(***************************************************************************)
(* The frame decoder (analyzeStream).  A byte of the response body is a    *)
(* one-character string for an ASCII character and the name of its value   *)
(* ("0xC3") otherwise; a character outside ASCII is named by its code      *)
(* point ("U+00E9").                                                       *)
(***************************************************************************)
LeadBytes == {"0xC3"}
ContinuationBytes == {"0xA9"}
ReplacementChar == "U+FFFD"

\* the character of a two-byte sequence
Compose(lead, cont) == "U+00E9"

\* decoder.decode(value, {stream: true}): carry is the incomplete sequence
\* the TextDecoder holds from the chunks before; a lead byte gives its
\* character with the continuation byte after it, the replacement character
\* when another byte follows it, and is held when it is the last byte
Utf8Decode(carry, value) ==
    LET bytes == carry \o value
        n == Len(bytes)
        char(i) ==
            IF bytes[i] \in LeadBytes
            THEN IF i = n THEN "held"
                 ELSE IF bytes[i + 1] \in ContinuationBytes
                 THEN Compose(bytes[i], bytes[i + 1])
                 ELSE ReplacementChar
            ELSE IF bytes[i] \in ContinuationBytes
            THEN IF i > 1 /\ bytes[i - 1] \in LeadBytes THEN "held"
                 ELSE ReplacementChar
            ELSE bytes[i]
    IN [text |-> SelectSeq([i \in 1..n |-> char(i)], LAMBDA c : c # "held"),
        carry |-> IF n > 0 /\ bytes[n] \in LeadBytes THEN <<bytes[n]>> ELSE <<>>]

RECURSIVE Utf8Encode(_)
\* the bytes the server sends for a text: two for U+00E9, one for an ASCII
\* character; the text is encoded half by half
Utf8Encode(chars) ==
    IF chars = <<>> THEN <<>>
    ELSE IF Len(chars) = 1
    THEN (IF chars[1] = "U+00E9" THEN <<"0xC3", "0xA9">> ELSE chars)
    ELSE LET half == Len(chars) \div 2 IN
         Utf8Encode(SubSeq(chars, 1, half))
         \o Utf8Encode(SubSeq(chars, half + 1, Len(chars)))

RECURSIVE SplitLines(_)
\* buffer.split('\n')
SplitLines(s) ==
    LET nl == {i \in 1..Len(s) : s[i] = "\n"} IN
    IF nl = {} THEN <<s>>
    ELSE LET i == CHOOSE i \in nl : \A j \in nl : i <= j
         IN <<SubSeq(s, 1, i - 1)>> \o SplitLines(Slice(s, i))

\* a decoder that starts every chunk with an empty buffer
Remainder_dropped(lines) == <<>>

\* buffer = lines.pop() || ''
Remainder(lines) == lines[Len(lines)]

EventPrefix == <<"e", "v", "e", "n", "t", ":">>
DataPrefix == <<"d", "a", "t", "a", ":">>
TextWord == <<"t", "e", "x", "t">>
ErrorWord == <<"e", "r", "r", "o", "r">>
CompleteWord == <<"c", "o", "m", "p", "l", "e", "t", "e">>
StartWord == <<"s", "t", "a", "r", "t">>
ProgressWord == <<"p", "r", "o", "g", "r", "e", "s", "s">>
MessageWord == <<"m", "e", "s", "s", "a", "g", "e">>
Quote == "\""

(***************************************************************************)
(* JSON.  A parsed object is a function from its keys to its values, both  *)
(* texts; JSON.parse is the inverse of the serialisation on the objects    *)
(* below and throws on every other text.                                   *)
(***************************************************************************)
JsonKeys == {TextWord, ErrorWord}
JsonValues == {<<"h", "i">>, <<"a", ".">>, <<" ", "a">>, <<"U+00E9">>, <<"x">>}
JsonObjects == {<<>>} \cup {k :> v : k \in JsonKeys, v \in JsonValues}

\* JSON.stringify of an object of JsonObjects
JsonText(obj) ==
    IF obj = <<>> THEN <<"{", "}">>
    ELSE LET k == CHOOSE k \in DOMAIN obj : TRUE IN
         <<"{", Quote>> \o k \o <<Quote, ":", Quote>> \o obj[k] \o <<Quote, "}">>

\* JSON.parse(jsonStr) does not throw
JsonValid(jsonStr) == \E obj \in JsonObjects : JsonText(obj) = jsonStr

\* JSON.parse(jsonStr)
JSONparse(jsonStr) == CHOOSE obj \in JsonObjects : JsonText(obj) = jsonStr

\* data.key || ''
Field(data, key) == IF key \in DOMAIN data THEN data[key] ELSE <<>>

\* the event that a data line gives to onEvent
EventOf(currentEvent, jsonStr) ==
    [event |-> IF currentEvent # <<>> THEN currentEvent ELSE MessageWord,
     data |-> JSONparse(jsonStr)]

\* a data line that gives an event to onEvent whatever its payload
TryParse_emitsAlways(d, jsonStr) ==
    Append(d.events,
           [event |-> IF d.currentEvent # <<>> THEN d.currentEvent ELSE MessageWord,
            data |-> <<>>])

\* the try block of a data line: the events given to onEvent after it; the
\* catch skips a payload on which JSON.parse throws
TryParse(d, jsonStr) ==
    IF jsonStr # <<>> /\ JsonValid(jsonStr)
    THEN Append(d.events, EventOf(d.currentEvent, jsonStr))
    ELSE d.events

\* a loop that resets currentEvent only after a payload that parsed
ProcessLine_keepsKind(d, line) ==
    LET trimmedLine == Trim(line) IN
    IF StartsWith(trimmedLine, EventPrefix)
    THEN [d EXCEPT !.currentEvent = Trim(Slice(trimmedLine, 6))]
    ELSE IF StartsWith(trimmedLine, DataPrefix)
    THEN LET events == TryParse(d, Trim(Slice(trimmedLine, 5))) IN
         [currentEvent |-> IF events = d.events THEN d.currentEvent ELSE <<>>,
          events |-> events]
    ELSE d

\* the body of the for loop over the complete lines; d holds currentEvent and
\* the events given to onEvent so far
ProcessLine(d, line) ==
    LET trimmedLine == Trim(line) IN
    IF StartsWith(trimmedLine, EventPrefix)
    THEN [d EXCEPT !.currentEvent = Trim(Slice(trimmedLine, 6))]
    ELSE IF StartsWith(trimmedLine, DataPrefix)
    THEN [currentEvent |-> <<>>,
          events |-> TryParse(d, Trim(Slice(trimmedLine, 5)))]
    ELSE d

RECURSIVE ProcessLines(_, _)
ProcessLines(d, lines) ==
    IF lines = <<>> THEN d
    ELSE ProcessLines(ProcessLine(d, Head(lines)), Tail(lines))

\* one turn of the read loop on the chunk value; st holds the TextDecoder's
\* carry, buffer and currentEvent
ProcessChunk(st, value) ==
    LET dec == Utf8Decode(st.carry, value)
        lines == SplitLines(st.buffer \o dec.text)
        d == ProcessLines([currentEvent |-> st.currentEvent, events |-> <<>>],
                          SubSeq(lines, 1, Len(lines) - 1))
    IN [carry |-> dec.carry, buffer |-> Remainder(lines),
        currentEvent |-> d.currentEvent, events |-> d.events]

\* a catch that reports no error
ReportsFailure_never(name) == FALSE

\* a catch that reports every error
ReportsFailure_always(name) == TRUE

\* the catch of analyzeStream: error.name !== 'AbortError'
ReportsFailure(name) == name # "AbortError"

(***************************************************************************)
(* The response bodies the server may send: frames of an optional event    *)
(* line, a data line and a blank line, with LF or CRLF line ends, the last *)
(* data line of the body with or without its line end.  A frame whose      *)
(* payload is NoPayload is an event line with no data line.                *)
(***************************************************************************)
NoPayload == <<"none">>
LF == <<"\n">>
CRLF == <<"\r", "\n">>
Malformed == <<"{", "b", "a", "d">>

FrameText(f, eol) ==
    (IF f.kind # <<>> THEN EventPrefix \o <<" ">> \o f.kind \o eol ELSE <<>>)
    \o (IF f.payload # NoPayload
        THEN DataPrefix \o <<" ">> \o f.payload \o eol
        ELSE <<>>)
    \o eol

RECURSIVE FramesText(_, _)
FramesText(frames, eol) ==
    IF frames = <<>> THEN <<>>
    ELSE FrameText(Head(frames), eol) \o FramesText(Tail(frames), eol)

TextFrame(token) == [kind |-> TextWord, payload |-> JsonText(TextWord :> token)]
ErrorFrame(msg) == [kind |-> ErrorWord, payload |-> JsonText(ErrorWord :> msg)]

Responses ==
    << \* one text frame
       [frames |-> <<TextFrame(<<"h", "i">>)>>, eol |-> LF, terminated |-> TRUE],
       \* a malformed payload between two well-formed frames
       [frames |-> <<TextFrame(<<"x">>),
                     [kind |-> TextWord, payload |-> Malformed],
                     TextFrame(<<"U+00E9">>)>>,
        eol |-> LF, terminated |-> TRUE],
       \* a data line without an event line, CRLF, the last line unterminated
       [frames |-> <<[kind |-> <<>>, payload |-> JsonText(<<>>)],
                     ErrorFrame(<<"x">>)>>,
        eol |-> CRLF, terminated |-> FALSE],
       \* an analysis that completes
       [frames |-> <<[kind |-> StartWord, payload |-> JsonText(<<>>)],
                     TextFrame(<<"a", ".">>), TextFrame(<<" ", "a">>),
                     [kind |-> CompleteWord, payload |-> JsonText(<<>>)]>>,
        eol |-> LF, terminated |-> TRUE],
       \* an analysis that the server ends with an error event
       [frames |-> <<TextFrame(<<"a", ".">>),
                     [kind |-> ProgressWord, payload |-> JsonText(<<>>)],
                     ErrorFrame(<<"x">>)>>,
        eol |-> LF, terminated |-> TRUE],
       \* a malformed payload, then a data line without an event line; an
       \* event line without a data line, then a frame of another kind
       [frames |-> <<[kind |-> TextWord, payload |-> Malformed],
                     [kind |-> <<>>, payload |-> JsonText(TextWord :> <<"x">>)],
                     [kind |-> StartWord, payload |-> NoPayload],
                     [kind |-> ProgressWord, payload |-> JsonText(<<>>)]>>,
        eol |-> LF, terminated |-> TRUE] >>

\* the bytes of a response body
Body(r) ==
    LET text == FramesText(r.frames, r.eol)
        whole == Utf8Encode(text)
    IN IF r.terminated THEN whole
       ELSE SubSeq(whole, 1, Len(whole) - 2 * Len(r.eol))

DirectResponses == {1, 2, 3, 6}
PipelineResponses == {4, 5}

(***************************************************************************)
(* One call of analyzeStream:                                              *)
(*   response   the body the server sends, an index of Responses;          *)
(*   chat       the callbacks are those of ChatInterface.handleSubmit      *)
(*       (otherwise they only record);                                     *)
(*   ttsEnabled the value of ttsEnabled in the closure of the callbacks;   *)
(*   phase      "fetching", "reading", then "done" (onComplete called),    *)
(*       "failed" (onError called) or "aborted" (AbortError swallowed);    *)
(*   pos        the bytes read so far;                                     *)
(*   carry, buffer, currentEvent   the locals of the read loop;            *)
(*   emitted    the events given to onEvent, in order;                     *)
(*   onErrorCalls, onCompleteCalls, abortCalls   calls counted;            *)
(*   aborted    controller.abort() was called;                             *)
(*   midLine, midChar   a chunk ended inside a line / inside a character.  *)
(***************************************************************************)
NewStream(response, byChat, ttsEnabled) ==
    [response |-> response, chat |-> byChat, ttsEnabled |-> ttsEnabled,
     phase |-> "fetching", pos |-> 0, carry |-> <<>>, buffer |-> <<>>,
     currentEvent |-> <<>>, emitted |-> <<>>, onErrorCalls |-> 0,
     onCompleteCalls |-> 0, abortCalls |-> 0, aborted |-> FALSE,
     midLine |-> FALSE, midChar |-> FALSE]

Bodies == [i \in 1..Len(Responses) |-> Body(Responses[i])]

\* the positions in the body of a response at which a frame ends
FrameEnds ==
    [i \in 1..Len(Responses) |->
        LET r == Responses[i] IN
        {Len(Utf8Encode(FramesText(SubSeq(r.frames, 1, k), r.eol))) :
            k \in 1..Len(r.frames)}]

\* the errors that fetch and the response checks raise
FetchFailures ==
    {[name |-> "Error", message |-> <<"Failed to start analysis">>],
     [name |-> "Error", message |-> <<"No response body">>],
     [name |-> "TypeError", message |-> <<"Failed to fetch">>]}

\* the errors that reader.read() raises when the connection breaks
ReadFailures == {[name |-> "TypeError", message |-> <<"network error">>]}

AbortError == [name |-> "AbortError", message |-> <<"The user aborted a request.">>]

\* controller.abort() on the stream i
AbortStream(strs, i) ==
    [strs EXCEPT ![i].aborted = TRUE, ![i].abortCalls = @ + 1]

(***************************************************************************)
(* The orchestrator (ChatInterface):                                       *)
(*   mounted      the component is mounted;                                *)
(*   isAnalyzing, ttsEnabled, progress   its state;                        *)
(*   abortRef     abortRef.current: 0 for null, else the stream that the   *)
(*       stored function aborts;                                           *)
(*   awaiting     the handleSubmit calls suspended at the creation of the  *)
(*       conversation or the upload of the images, each with the           *)
(*       ttsEnabled of its closure;                                        *)
(*   cancelLog    the abort and stop calls that handleStop and the unmount *)
(*       cleanup made since the last stream was started;                   *)
(*   messages     the message list that onMessagesUpdate received last,    *)
(*       each message its role and its content;                            *)
(*   streamingContent, streamingMessage   streamingContentRef.current and  *)
(*       the streamed text shown;                                          *)
(*   updateTimer  streamingUpdateTimeoutRef.current is set: the 50 ms      *)
(*       timer that copies the one to the other is pending;                *)
(*   userMessage  userMessageRef.current is set.                           *)
(* A state update of an unmounted component has no effect.                 *)
(***************************************************************************)
ChatInit ==
    [mounted |-> TRUE, isAnalyzing |-> FALSE, ttsEnabled |-> TRUE,
     abortRef |-> 0, progress |-> [step |-> "idle", detail |-> <<>>],
     awaiting |-> <<>>, cancelLog |-> <<>>,
     messages |-> <<>>, streamingContent |-> <<>>, streamingMessage |-> <<>>,
     updateTimer |-> FALSE, userMessage |-> FALSE]

\* setStreamingMessage
SetStreamingMessage(c, text) ==
    IF c.mounted THEN [c EXCEPT !.streamingMessage = text] ELSE c

HypothesisWord == <<"h", "y", "p", "o", "t", "h", "e", "s", "i", "s">>
UserContent == <<"A", "n", "a", "l", "y", "z", "e">>
StoppedMark == <<" ", "[", "S", "t", "o", "p", "p", "e", "d", "]">>

\* setIsAnalyzing and setProgress together
SetState(c, analyzing, step, detail) ==
    IF c.mounted
    THEN [c EXCEPT !.isAnalyzing = analyzing,
                   !.progress = [step |-> step, detail |-> detail]]
    ELSE c

StepWord == <<"s", "t", "e", "p">>

\* an onEvent callback that does not flush at the complete event
ChatOnEvent_noFlush(w, st, ev) ==
    IF ev.event = TextWord
    THEN LET token == Field(ev.data, TextWord)
             w1 == [w EXCEPT !.chat.streamingContent = @ \o token,
                             !.chat.updateTimer = TRUE]
         IN IF st.ttsEnabled /\ token # <<>>
            THEN [w1 EXCEPT !.tts = speakToken(@, token)]
            ELSE w1
    ELSE IF ev.event = CompleteWord
    THEN [w EXCEPT !.chat = SetState(
                       [@ EXCEPT !.messages =
                                     Append(@, [role |-> "assistant",
                                                content |-> <<>>]),
                                 !.userMessage = FALSE],
                       FALSE, "complete", <<>>)]
    ELSE w

\* the onEvent callback of handleSubmit; w holds the controller and the
\* orchestrator, st the stream of the callback
ChatOnEvent(w, st, ev) ==
    IF ev.event = StartWord
    THEN [w EXCEPT !.chat = SetState(@, @.isAnalyzing, "detection", <<>>)]
    ELSE IF ev.event = ProgressWord
    THEN [w EXCEPT !.chat = SetState(@, @.isAnalyzing, "progress",
                                     Field(ev.data, StepWord))]
    ELSE IF ev.event = TextWord
    THEN LET token == Field(ev.data, TextWord)
             w1 == [w EXCEPT !.chat.streamingContent = @ \o token,
                             !.chat.updateTimer = TRUE]
         IN IF st.ttsEnabled /\ token # <<>>
            THEN [w1 EXCEPT !.tts = speakToken(@, token)]
            ELSE w1
    ELSE IF ev.event = CompleteWord
    THEN LET assistantMessage ==
                 [role |-> "assistant",
                  content |-> Field(ev.data, HypothesisWord)]
             c1 == [w.chat EXCEPT !.updateTimer = FALSE,
                                  !.messages = Append(@, assistantMessage),
                                  !.streamingContent = <<>>,
                                  !.userMessage = FALSE]
         IN [w EXCEPT !.chat = SetState(SetStreamingMessage(c1, <<>>),
                                        FALSE, "complete", <<>>),
                      !.tts = flush(@)]
    ELSE IF ev.event = ErrorWord
    THEN [w EXCEPT !.chat = SetState([@ EXCEPT !.userMessage = FALSE],
                                     FALSE, "error", Field(ev.data, ErrorWord))]
    ELSE w

\* the onError callback of handleSubmit
ChatOnError(w, error) ==
    [w EXCEPT !.chat = SetState([@ EXCEPT !.userMessage = FALSE],
                                FALSE, "error", error.message)]

RECURSIVE Deliver(_, _, _)
\* the events of one chunk given to the callback of the stream, in order
Deliver(w, st, events) ==
    IF events = <<>> \/ ~st.chat THEN w
    ELSE Deliver(ChatOnEvent(w, st, Head(events)), st, Tail(events))

\* the .catch of analyzeStream; w holds the controller, the orchestrator and
\* the stream
Catch(w, error) ==
    IF ReportsFailure(error.name)
    THEN LET w1 == [w EXCEPT !.st.phase = "failed", !.st.onErrorCalls = @ + 1]
         IN IF w.st.chat THEN ChatOnError(w1, error) ELSE w1
    ELSE [w EXCEPT !.st.phase = "aborted"]

\* handleSubmit from the user message on: the stream is started
StartAnalysis(c, strs, captured, response) ==
    [chat |-> [SetState(SetStreamingMessage(c, <<>>), TRUE, "idle", <<>>) EXCEPT
                  !.abortRef = Len(strs) + 1, !.cancelLog = <<>>,
                  !.userMessage = TRUE,
                  !.messages = Append(@, [role |-> "user",
                                          content |-> UserContent]),
                  !.streamingContent = <<>>],
     streams |-> Append(strs, NewStream(response, TRUE, captured))]

\* the name of the step that gave the event of this kind to onEvent last
EventOp(kind) ==
    IF kind = TextWord THEN "textEvent"
    ELSE IF kind = CompleteWord THEN "completeEvent"
    ELSE IF kind = ErrorWord THEN "errorEvent"
    ELSE "otherEvent"

(***************************************************************************)
(* State.                                                                  *)
(***************************************************************************)
VARIABLES
    tts,        \* the controller and the engine
    lastOp,     \* the name of the last step taken
    inputs,     \* the number of speakToken / speak calls made directly
    streams,    \* the analyzeStream calls made, in order
    chat        \* the orchestrator

vars == <<tts, lastOp, inputs, streams, chat>>

Init ==
    /\ tts = TtsInit
    /\ lastOp = "init"
    /\ inputs = 0
    /\ streams = <<>>
    /\ chat = ChatInit

(***************************************************************************)
(* The controller driven directly, as a caller of the hook may.            *)
(***************************************************************************)
FeedToken ==
    /\ inputs < MaxInputs
    /\ \E token \in Tokens : tts' = speakToken(tts, token)
    /\ lastOp' = "feedToken"
    /\ inputs' = inputs + 1
    /\ UNCHANGED <<streams, chat>>

SpeakNow ==
    /\ inputs < MaxInputs
    /\ \E text \in SpeakTexts, n \in LateChoices(tts) : tts' = speak(tts, text, n)
    /\ lastOp' = "speakNow"
    /\ inputs' = inputs + 1
    /\ UNCHANGED <<streams, chat>>

Flush ==
    /\ tts' = flush(tts)
    /\ lastOp' = "flush"
    /\ UNCHANGED <<inputs, streams, chat>>

Stop ==
    /\ \E n \in LateChoices(tts) : tts' = stop(tts, n)
    /\ lastOp' = "stop"
    /\ UNCHANGED <<inputs, streams, chat>>

(***************************************************************************)
(* The engine, the timers and the clock.                                   *)
(***************************************************************************)
\* an active utterance ends: its onend handler runs
UtteranceEnd ==
    /\ tts.active > 0
    /\ tts' = onend([tts EXCEPT !.active = @ - 1])
    /\ lastOp' = "onend"
    /\ UNCHANGED <<inputs, streams, chat>>

\* an active utterance fails: its onerror handler runs
UtteranceError ==
    /\ tts.active > 0
    /\ tts' = onerror([tts EXCEPT !.active = @ - 1])
    /\ lastOp' = "onerror"
    /\ UNCHANGED <<inputs, streams, chat>>

\* the end event of a cancelled utterance arrives after the cancel returned
LateEnd ==
    /\ tts.late > 0
    /\ tts' = onend([tts EXCEPT !.late = @ - 1])
    /\ lastOp' = "lateEnd"
    /\ UNCHANGED <<inputs, streams, chat>>

\* the error event of a cancelled utterance arrives after the cancel returned
LateError ==
    /\ tts.late > 0
    /\ tts' = onerror([tts EXCEPT !.late = @ - 1])
    /\ lastOp' = "lateError"
    /\ UNCHANGED <<inputs, streams, chat>>

\* a setTimeout(processText, 100) whose delay has passed fires
TimerFire ==
    /\ tts.timers # <<>>
    /\ Head(tts.timers) = 0
    /\ tts' = processText([tts EXCEPT !.timers = Tail(@),
                                      !.staleTimers = Max(@ - 1, 0)])
    /\ lastOp' = "timer"
    /\ UNCHANGED <<inputs, streams, chat>>

Tick ==
    /\ tts' = Elapse(tts)
    /\ tts' # tts
    /\ lastOp' = "tick"
    /\ UNCHANGED <<inputs, streams, chat>>

Next ==
    \/ FeedToken
    \/ SpeakNow
    \/ Flush
    \/ Stop
    \/ UtteranceEnd
    \/ UtteranceError
    \/ LateEnd
    \/ LateError
    \/ TimerFire
    \/ Tick

Spec == Init /\ [][Next]_vars

(***************************************************************************)
(* The frame decoder: the steps of one analyzeStream call.                 *)
(***************************************************************************)
\* the response arrives, is ok and has a body: the read loop starts
FetchOk ==
    /\ \E i \in 1..Len(streams) :
         /\ streams[i].phase = "fetching"
         /\ ~streams[i].aborted
         /\ streams' = [streams EXCEPT ![i].phase = "reading"]
    /\ lastOp' = "fetchOk"
    /\ UNCHANGED <<tts, inputs, chat>>

\* fetch rejects, the response is not ok or it has no body
FetchFail ==
    /\ \E i \in 1..Len(streams), error \in FetchFailures :
         /\ streams[i].phase = "fetching"
         /\ ~streams[i].aborted
         /\ LET w == Catch([tts |-> tts, chat |-> chat, st |-> streams[i]], error)
            IN /\ streams' = [streams EXCEPT ![i] = w.st]
               /\ tts' = w.tts
               /\ chat' = w.chat
    /\ lastOp' = "fetchFail"
    /\ UNCHANGED inputs

\* the lengths that the next chunk of the stream may have, rest bytes of the
\* body being left
ChunkLengths(st, rest) ==
    IF st.chat
    THEN {n \in 1..rest : n = rest \/ st.pos + n \in FrameEnds[st.response]}
    ELSE 1..rest

\* reader.read() gives the next chunk: one turn of the loop.
\* A read that is pending when controller.abort() is called rejects, so no
\* chunk is read after it.
ReadChunk ==
    /\ \E i \in 1..Len(streams) :
         LET st == streams[i]
             body == Bodies[st.response]
         IN /\ st.phase = "reading"
            /\ ~st.aborted
            /\ \E n \in ChunkLengths(st, Len(body) - st.pos) :
                 LET r == ProcessChunk(st, SubSeq(body, st.pos + 1, st.pos + n))
                     w == Deliver([tts |-> tts, chat |-> chat], st, r.events)
                 IN /\ streams' = [streams EXCEPT ![i] =
                          [st EXCEPT !.pos = @ + n, !.carry = r.carry,
                                     !.buffer = r.buffer,
                                     !.currentEvent = r.currentEvent,
                                     !.emitted = @ \o r.events,
                                     !.midLine = @ \/ r.buffer # <<>>,
                                     !.midChar = @ \/ r.carry # <<>>]]
                    /\ tts' = w.tts
                    /\ chat' = w.chat
                    /\ lastOp' = IF st.chat /\ r.events # <<>>
                                 THEN EventOp(r.events[Len(r.events)].event)
                                 ELSE "chunk"
    /\ UNCHANGED inputs

\* reader.read() reports the end of the body: onComplete is called (the
\* callback of handleSubmit does nothing)
ReadDone ==
    /\ \E i \in 1..Len(streams) :
         /\ streams[i].phase = "reading"
         /\ ~streams[i].aborted
         /\ streams[i].pos = Len(Bodies[streams[i].response])
         /\ streams' = [streams EXCEPT ![i].phase = "done",
                                       ![i].onCompleteCalls = @ + 1]
    /\ lastOp' = "readDone"
    /\ UNCHANGED <<tts, inputs, chat>>

\* reader.read() rejects: the connection broke
ReadFail ==
    /\ \E i \in 1..Len(streams), error \in ReadFailures :
         /\ streams[i].phase = "reading"
         /\ ~streams[i].aborted
         /\ LET w == Catch([tts |-> tts, chat |-> chat, st |-> streams[i]], error)
            IN /\ streams' = [streams EXCEPT ![i] = w.st]
               /\ tts' = w.tts
               /\ chat' = w.chat
    /\ lastOp' = "readFail"
    /\ UNCHANGED inputs

\* the pending fetch or read of an aborted call rejects with an AbortError
AbortRejection ==
    /\ \E i \in 1..Len(streams) :
         /\ streams[i].phase \in {"fetching", "reading"}
         /\ streams[i].aborted
         /\ LET w == Catch([tts |-> tts, chat |-> chat, st |-> streams[i]],
                           AbortError)
            IN /\ streams' = [streams EXCEPT ![i] = w.st]
               /\ tts' = w.tts
               /\ chat' = w.chat
    /\ lastOp' = "abortRejection"
    /\ UNCHANGED inputs

(***************************************************************************)
(* analyzeStream called directly, with callbacks that record.              *)
(***************************************************************************)
AnalyzeStream ==
    /\ Len(streams) < MaxCalls
    /\ \E response \in DirectResponses :
         streams' = Append(streams, NewStream(response, FALSE, FALSE))
    /\ lastOp' = "analyzeStream"
    /\ UNCHANGED <<tts, inputs, chat>>

\* the function that analyzeStream returned is called
Cancel ==
    /\ \E i \in 1..Len(streams) :
         /\ ~streams[i].chat
         /\ ~streams[i].aborted
         /\ streams' = AbortStream(streams, i)
    /\ lastOp' = "cancel"
    /\ UNCHANGED <<tts, inputs, chat>>

DecoderNext ==
    \/ AnalyzeStream
    \/ Cancel
    \/ FetchOk
    \/ FetchFail
    \/ ReadChunk
    \/ ReadDone
    \/ ReadFail
    \/ AbortRejection

DecoderSpec == Init /\ [][DecoderNext]_vars

(***************************************************************************)
(* The orchestrator: the handlers of ChatInterface.                        *)
(***************************************************************************)
\* handleSubmit with a conversation and no image: nothing is awaited
HandleSubmit ==
    /\ chat.mounted
    /\ ~chat.isAnalyzing
    /\ Len(streams) + Len(chat.awaiting) < MaxStreams
    /\ \E response \in PipelineResponses :
         LET r == StartAnalysis(chat, streams, chat.ttsEnabled, response)
         IN chat' = r.chat /\ streams' = r.streams
    /\ lastOp' = "submit"
    /\ UNCHANGED <<tts, inputs>>

\* handleSubmit up to its first await (the conversation is created or the
\* images are uploaded)
HandleSubmitAwait ==
    /\ chat.mounted
    /\ ~chat.isAnalyzing
    /\ Len(streams) + Len(chat.awaiting) < MaxStreams
    /\ chat' = [chat EXCEPT !.awaiting = Append(@, chat.ttsEnabled)]
    /\ lastOp' = "submitAwait"
    /\ UNCHANGED <<tts, inputs, streams>>

\* the sequence s without its element k
Without(s, k) == SubSeq(s, 1, k - 1) \o SubSeq(s, k + 1, Len(s))

\* the awaited requests of a suspended handleSubmit succeed: it goes on
SubmitResume ==
    /\ \E k \in 1..Len(chat.awaiting), response \in PipelineResponses :
         LET r == StartAnalysis([chat EXCEPT !.awaiting = Without(@, k)],
                                streams, chat.awaiting[k], response)
         IN chat' = r.chat /\ streams' = r.streams
    /\ lastOp' = "submitResume"
    /\ UNCHANGED <<tts, inputs>>

\* the upload of a suspended handleSubmit fails: it returns
SubmitAbandon ==
    /\ \E k \in 1..Len(chat.awaiting) :
         chat' = [chat EXCEPT !.awaiting = Without(@, k)]
    /\ lastOp' = "submitAbandon"
    /\ UNCHANGED <<tts, inputs, streams>>

\* handleStop; the button and the Enter key call it only while isAnalyzing
HandleStop ==
    /\ chat.mounted
    /\ chat.isAnalyzing
    /\ \E n \in LateChoices(tts) :
         /\ streams' = IF chat.abortRef # 0
                       THEN AbortStream(streams, chat.abortRef) ELSE streams
         /\ tts' = stop(tts, n)
         /\ chat' = [SetState(SetStreamingMessage(chat, <<>>),
                              FALSE, "idle", <<>>) EXCEPT
                        !.abortRef = 0,
                        !.cancelLog = @ \o (IF chat.abortRef # 0
                                            THEN <<"abort", "stop">>
                                            ELSE <<"stop">>),
                        !.messages =
                            IF chat.streamingMessage # <<>> /\ chat.userMessage
                            THEN Append(@, [role |-> "assistant",
                                            content |-> chat.streamingMessage
                                                        \o StoppedMark])
                            ELSE @,
                        !.streamingContent = <<>>,
                        !.updateTimer = FALSE]
    /\ lastOp' = "handleStop"
    /\ UNCHANGED inputs

\* the component unmounts: the cleanup of its effect runs
Unmount ==
    /\ chat.mounted
    /\ \E n \in LateChoices(tts) :
         /\ streams' = IF chat.abortRef # 0
                       THEN AbortStream(streams, chat.abortRef) ELSE streams
         /\ tts' = stop(tts, n)
         /\ chat' = [chat EXCEPT
                        !.mounted = FALSE,
                        !.cancelLog = @ \o (IF chat.abortRef # 0
                                            THEN <<"abort", "stop">>
                                            ELSE <<"stop">>)]
    /\ lastOp' = "unmount"
    /\ UNCHANGED inputs

\* the conversation shown changes (another one is selected, or the one that
\* handleSubmit created arrives): the effect on conversation?.id runs
ConversationChange ==
    /\ chat.mounted
    /\ \E n \in LateChoices(tts) : tts' = stop(tts, n)
    /\ lastOp' = "conversationChange"
    /\ UNCHANGED <<inputs, streams, chat>>

\* the 50 ms timer of the text events fires: the streamed text is shown
StreamingUpdate ==
    /\ chat.updateTimer
    /\ chat' = [SetStreamingMessage(chat, chat.streamingContent) EXCEPT
                   !.updateTimer = FALSE]
    /\ lastOp' = "streamingUpdate"
    /\ UNCHANGED <<tts, inputs, streams>>

\* toggleTts
ToggleTts ==
    /\ chat.mounted
    /\ \E n \in LateChoices(tts) :
         tts' = IF tts.isSpeaking THEN stop(tts, n) ELSE tts
    /\ chat' = [chat EXCEPT !.ttsEnabled = ~@]
    /\ lastOp' = "toggleTts"
    /\ UNCHANGED <<inputs, streams>>

PipelineNext ==
    \/ HandleSubmit
    \/ HandleSubmitAwait
    \/ SubmitResume
    \/ SubmitAbandon
    \/ HandleStop
    \/ Unmount
    \/ ToggleTts
    \/ ConversationChange
    \/ StreamingUpdate
    \/ FetchOk
    \/ FetchFail
    \/ ReadChunk
    \/ ReadDone
    \/ ReadFail
    \/ AbortRejection
    \/ UtteranceEnd
    \/ UtteranceError
    \/ LateEnd
    \/ LateError
    \/ TimerFire
    \/ Tick

PipelineSpec == Init /\ [][PipelineNext]_vars

(***************************************************************************)
(* Turn after turn: the user submits again once the orchestrator has left  *)
(* the in-progress state.  Nothing is awaited, the component stays mounted *)
(* with the conversation and the ttsEnabled it has, and the engine reports *)
(* no error.                                                               *)
(***************************************************************************)
\* handleSubmit of a further turn, with a conversation and no image
HandleSubmitAgain ==
    /\ chat.mounted
    /\ ~chat.isAnalyzing
    /\ streams # <<>>
    /\ Len(streams) < MaxTurns
    /\ \E response \in PipelineResponses :
         LET r == StartAnalysis(chat, streams, chat.ttsEnabled, response)
         IN chat' = r.chat /\ streams' = r.streams
    /\ lastOp' = "submitAgain"
    /\ UNCHANGED <<tts, inputs>>

TurnsNext ==
    \/ HandleSubmit
    \/ HandleSubmitAgain
    \/ HandleStop
    \/ FetchOk
    \/ FetchFail
    \/ ReadChunk
    \/ ReadDone
    \/ ReadFail
    \/ AbortRejection
    \/ UtteranceEnd
    \/ LateEnd
    \/ TimerFire
    \/ Tick

TurnsSpec == Init /\ [][TurnsNext]_vars



(***************************************************************************)
(* One analysis left to itself: the user submits once and does nothing      *)
(* more.  The server may also close the body after a text event, without a *)
(* complete or an error event.  A pending fetch settles, a reader.read()   *)
(* at the end of the body settles (the end is reported or the connection   *)
(* breaks) and the 50 ms timer of the text events fires; a chunk may be    *)
(* delayed without bound.                                                  *)
(***************************************************************************)
EndingResponses == PipelineResponses \cup {1}

\* handleSubmit with a conversation and no image
HandleSubmitOnce ==
    /\ chat.mounted
    /\ ~chat.isAnalyzing
    /\ streams = <<>>
    /\ \E response \in EndingResponses :
         LET r == StartAnalysis(chat, streams, chat.ttsEnabled, response)
         IN chat' = r.chat /\ streams' = r.streams
    /\ lastOp' = "submit"
    /\ UNCHANGED <<tts, inputs>>

EndingNext ==
    \/ HandleSubmitOnce
    \/ StreamingUpdate
    \/ FetchOk
    \/ FetchFail
    \/ ReadChunk
    \/ ReadDone
    \/ ReadFail
    \/ UtteranceEnd
    \/ TimerFire
    \/ Tick

EndingSpec ==
    /\ Init
    /\ [][EndingNext]_vars
    /\ WF_vars(FetchOk \/ FetchFail)
    /\ WF_vars(ReadDone \/ ReadFail)
    /\ WF_vars(StreamingUpdate)

(***************************************************************************)
(* The text functions on their own: a buffer is drawn, in streaming mode   *)
(* or not, and processText, the engine, the timers and the clock work      *)
(* through it.                                                             *)
(***************************************************************************)
\* the longest buffer drawn character by character
MaxTextLen == 4
\* a letter, whitespace, terminators, markup, dashes
TextChars == {"a", " ", "\n", ".", "!", "*", "_", "-"}
ShortTexts == UNION {[1..n -> TextChars] : n \in 0..MaxTextLen}

\* "Hello world. More text"
HelloWorld ==
    <<"H", "e", "l", "l", "o", " ", "w", "o", "r", "l", "d", ".", " ", "M",
      "o", "r", "e", " ", "t", "e", "x", "t">>
\* "no punctuation yet"
NoPunctuation ==
    <<"n", "o", " ", "p", "u", "n", "c", "t", "u", "a", "t", "i", "o", "n",
      " ", "y", "e", "t">>
\* "**Warning:** check _this_ (U+2014) now", U+2014 being the em dash
WarningText ==
    <<"*", "*", "W", "a", "r", "n", "i", "n", "g", ":", "*", "*", " ", "c",
      "h", "e", "c", "k", " ", "_", "t", "h", "i", "s", "_", " ", "U+2014",
      " ", "n", "o", "w">>
Buffers == ShortTexts \cup {HelloWorld, NoPunctuation, WarningText}

TextInit ==
    /\ \E text \in Buffers, streaming \in BOOLEAN :
         tts = [TtsInit EXCEPT !.pendingText = text, !.received = text,
                               !.fed = text,
                               !.isStreamingMode = streaming,
                               !.streamActive = TRUE, !.sinceLastToken = 0]
    /\ lastOp = "init"
    /\ inputs = 0
    /\ streams = <<>>
    /\ chat = ChatInit

ProcessText ==
    /\ tts' = processText(tts)
    /\ lastOp' = "processText"
    /\ UNCHANGED <<inputs, streams, chat>>

TextNext == ProcessText \/ UtteranceEnd \/ TimerFire \/ Tick

TextSpec == TextInit /\ [][TextNext]_vars

(***************************************************************************)
(* The voice selection: the engine announces its voices, once or again,    *)
(* while a text of three sentences is spoken.                              *)
(***************************************************************************)
\* the catalogs of at most MaxVoices voices, no voice twice
Catalogs ==
    {c \in UNION {[1..n -> Voices] : n \in 0..MaxVoices} :
        \A i, j \in 1..Len(c) : c[i] = c[j] => i = j}

ThreeSentences == <<"a", ".", "a", ".", "a", ".">>

VoiceInit ==
    /\ tts = [TtsInit EXCEPT !.pendingText = ThreeSentences,
                             !.received = ThreeSentences,
                             !.fed = ThreeSentences,
                             !.streamActive = TRUE, !.sinceLastToken = 0]
    /\ lastOp = "init"
    /\ inputs = 0
    /\ streams = <<>>
    /\ chat = ChatInit

\* loadVoices, at mount and on the voiceschanged event of the engine
LoadVoices ==
    /\ \E voices \in Catalogs :
         tts' = IF Len(voices) > 0
                THEN [tts EXCEPT !.availableVoices = voices]
                ELSE tts
    /\ lastOp' = "loadVoices"
    /\ UNCHANGED <<inputs, streams, chat>>

VoiceNext == LoadVoices \/ ProcessText \/ UtteranceEnd

VoiceSpec == VoiceInit /\ [][VoiceNext]_vars

(***************************************************************************)
(* Claims about the speech playback controller.                            *)
(***************************************************************************)

\* C1: at most one utterance issued by the controller is active at a time:
\* speechSynthesis.speak is never called while an earlier utterance has
\* neither ended, errored nor been cancelled.
C1_AtMostOneActive == tts.active <= 1

\* the sentence-split of a text: /^(.*?[.!?])\s*/s applied over and over
RECURSIVE SentenceSplit(_)
SentenceSplit(text) ==
    LET k == FirstTerminator(text) IN
    IF k = 0 THEN <<>>
    ELSE <<Trim(SubSeq(text, 1, k))>>
             \o SentenceSplit(Slice(text, k + WhitespaceRun(text, k + 1)))

\* cleanForSpeech of each sentence of the sentence-split, in order
CleanedSentences(text) ==
    LET ss == SentenceSplit(text) IN
    [i \in 1..Len(ss) |-> cleanTextForSpeech(ss[i])]

\* C2 as stated: with no stop or speakNow among the feedToken calls, the
\* utterances given to the engine are at every moment a prefix of the
\* cleaned sentences of the concatenation of the tokens fed.
C2_SpokenIsPrefix_AsStated ==
    tts.resetBy # "speak" =>
        IsPrefix(tts.spoken, CleanedSentences(tts.received))

\* C2 amended: the same with no stop, speakNow or flush among the feedToken
\* calls (flush closes the buffer with a period that no token carried).
C2_SpokenIsPrefix ==
    tts.resetBy # "speak" /\ ~tts.flushed =>
        IsPrefix(tts.spoken, CleanedSentences(tts.received))

\* two sentences were spoken from tokens fed after a stop, the second one
\* cut out of a buffer that began with whitespace
C2_Witness ==
    /\ tts.resetBy = "stop" /\ ~tts.flushed
    /\ tts.received = <<"a", ".", " ", "a", "!">>
    /\ tts.spoken = <<<<"a", ".">>, <<"a", "!">>>>

\* no engine event and no timer is outstanding
Quiescent == tts.active = 0 /\ tts.late = 0 /\ tts.timers = <<>>

\* C3: after a flush on a buffer with an unterminated trailing fragment, if
\* the engine reports every utterance and no stop (nor a speakNow, which
\* discards the buffer as stop does) follows, the fragment is given to the
\* engine as one utterance: once every engine event and timer has been
\* delivered, the fragment has been spoken.  (The buffer then holds none of
\* the text it held at the flush.)
C3_FlushedFragmentSpoken == tts.owed # <<>> /\ Quiescent => tts.paid

\* C4: right after stop the buffer is empty and the mode is Idle (not
\* streaming, not dispatching, isSpeaking false, engine silent); and when the
\* only text received since the stop is the token "Hi.", exactly the
\* utterance "Hi." was given to the engine since.
C4_StopResets ==
    /\ lastOp = "stop" =>
          /\ tts.pendingText = <<>>
          /\ ~tts.isStreamingMode /\ ~tts.isProcessing /\ ~tts.isSpeaking
          /\ tts.active = 0
    /\ tts.resetBy = "stop" /\ tts.received = Hi => tts.spoken = <<Hi>>

\* "Hi." was fed after a stop that cancelled an utterance of earlier text
C4_Witness ==
    /\ lastOp = "feedToken" /\ tts.resetBy = "stop" /\ tts.received = Hi
    /\ tts.late > 0 /\ tts.spoken = <<Hi>> /\ tts.pendingText = <<>>

\* C5: in Streaming mode, when an utterance completes and the buffer is not
\* blank, the controller continues (schedules the next sentence) only if the
\* last feedToken was less than 250 ms before; otherwise it schedules and
\* dispatches nothing, isSpeaking is false and the buffer is kept, and it
\* stays so, nothing dispatched, until a new token or a flush arrives
\* (held lasts until the next speakToken, flush, speak or stop).
C5_PauseHoldsSilent ==
    [][/\ (/\ lastOp' \in {"onend", "lateEnd"}
           /\ tts.isStreamingMode
           /\ Trim(tts.pendingText) # <<>>) =>
              IF tts.sinceLastFeed < STREAM_PAUSE_THRESHOLD
              THEN tts'.timers = Append(tts.timers, CONTINUE_DELAY)
              ELSE /\ tts'.timers = tts.timers
                   /\ tts'.spoken = tts.spoken
                   /\ tts'.pendingText = tts.pendingText
                   /\ ~tts'.isSpeaking
                   /\ tts'.held
       /\ tts.held /\ tts'.held =>
              /\ tts'.spoken = tts.spoken
              /\ tts'.pendingText = tts.pendingText]_vars


(***************************************************************************)
(* Claims about the frame decoder.                                         *)
(***************************************************************************)
\* what the read loop gives to onEvent when the whole body is one chunk
WholeDecode ==
    [i \in 1..Len(Responses) |->
        ProcessChunk([carry |-> <<>>, buffer |-> <<>>, currentEvent |-> <<>>],
                     Bodies[i]).events]

\* C6: the events that analyzeStream emits do not depend on the chunking.
\* However the body is split into chunks, the events emitted so far are a
\* prefix of, and at the end of the body equal to, the events emitted when
\* the body arrives as one chunk; the body of one text frame gives exactly
\* one event, also when a chunk ends in the middle of a line.
C6_ChunkingIndependent ==
    \A i \in 1..Len(streams) :
        LET st == streams[i] IN
        /\ IsPrefix(st.emitted, WholeDecode[st.response])
        /\ st.phase = "done" => st.emitted = WholeDecode[st.response]
        /\ st.phase = "done" /\ st.response = 1 =>
               st.emitted = <<[event |-> TextWord,
                               data |-> TextWord :> <<"h", "i">>]>>

\* a body read to its end in chunks that ended inside a line and inside a
\* two-byte character
C6_Witness ==
    \E i \in 1..Len(streams) :
        /\ streams[i].phase = "done"
        /\ streams[i].response = 2
        /\ streams[i].midLine
        /\ streams[i].midChar
        /\ Len(streams[i].emitted) = 2

RECURSIVE FrameEvents(_)
\* the events of the frames whose payload parses, in order
FrameEvents(frames) ==
    IF frames = <<>> THEN <<>>
    ELSE (IF JsonValid(Head(frames).payload)
          THEN <<EventOf(Head(frames).kind, Head(frames).payload)>>
          ELSE <<>>) \o FrameEvents(Tail(frames))

\* the frames of a body whose data line is complete
CompleteFrames(r) ==
    IF r.terminated THEN r.frames ELSE SubSeq(r.frames, 1, Len(r.frames) - 1)

\* C7: a data line whose payload fails to parse emits no event and does not
\* end the stream.  While a body is read onError is not called, and when its
\* end is reached onComplete was called once and the events emitted are
\* those of the complete data lines with a well-formed payload, in order,
\* the ones after a malformed payload included.
C7_MalformedDropped ==
    \A i \in 1..Len(streams) :
        LET st == streams[i] IN
        /\ st.phase \in {"reading", "done"} => st.onErrorCalls = 0
        /\ st.phase = "done" =>
              /\ st.emitted = FrameEvents(CompleteFrames(Responses[st.response]))
              /\ st.onCompleteCalls = 1

\* the body with a malformed payload between two well-formed frames was read
\* to its end
C7_Witness ==
    \E i \in 1..Len(streams) :
        /\ streams[i].phase = "done"
        /\ streams[i].response = 2
        /\ streams[i].emitted =
               <<[event |-> TextWord, data |-> TextWord :> <<"x">>],
                 [event |-> TextWord, data |-> TextWord :> <<"U+00E9">>]>>
        /\ streams[i].onErrorCalls = 0
        /\ streams[i].onCompleteCalls = 1

\* C8: after the function returned by analyzeStream is called, no event is
\* given to onEvent and neither onError nor onComplete is called: no step
\* taken after the call changes the events emitted or the two counts.
C8_NoCallbackAfterCancel ==
    [][\A i \in 1..Len(streams) :
          streams[i].aborted =>
              /\ streams'[i].emitted = streams[i].emitted
              /\ streams'[i].onErrorCalls = streams[i].onErrorCalls
              /\ streams'[i].onCompleteCalls = streams[i].onCompleteCalls]_vars

\* a call cancelled in the middle of its body, after an event, whose pending
\* read has rejected
C8_Witness ==
    \E i \in 1..Len(streams) :
        /\ streams[i].aborted
        /\ streams[i].phase = "aborted"
        /\ streams[i].emitted # <<>>
        /\ streams[i].pos < Len(Bodies[streams[i].response])
        /\ streams[i].onErrorCalls = 0
        /\ streams[i].onCompleteCalls = 0

(***************************************************************************)
(* Claims about the orchestrator.                                          *)
(***************************************************************************)
\* C9: cancelling the pipeline, by handleStop or by the unmount cleanup,
\* aborts the stream and then calls stop() on the controller, each exactly
\* once for one pipeline: the calls that the two cancel paths made since the
\* stream was started are one abort followed by one stop.
C9_CancelOnce ==
    streams # <<>> /\ chat.cancelLog # <<>> => chat.cancelLog = <<"abort", "stop">>

\* C10: when the orchestrator has handled an error event, the message the
\* event carried is shown, the pending buffer is empty and no utterance is in
\* flight.
C10_ErrorStops ==
    lastOp = "errorEvent" =>
        /\ chat.mounted =>
               chat.progress = [step |-> "error", detail |-> <<"x">>]
        /\ tts.pendingText = <<>>
        /\ tts.active = 0

(***************************************************************************)
(* Claims about stop and the continuations.                                *)
(***************************************************************************)
\* C11: stop invalidates the scheduled continuations: when a timer that an
\* utterance completion scheduled before the last stop fires, no utterance
\* is given to the engine, whatever tokens were fed since the stop.
C11_StaleTimerSilent ==
    [][lastOp' = "timer" /\ tts.staleTimers > 0 =>
           tts'.spoken = tts.spoken /\ tts'.active = tts.active]_vars

\* C12: after stop, as long as no feedToken or speakNow call was made, no
\* utterance is given to the engine and the engine stays silent: a flush, a
\* timer firing or a late onend/onerror of a cancelled utterance starts no
\* speech.
C12_SilentAfterStop ==
    tts.resetBy = "stop" /\ tts.received = <<>> =>
        tts.spoken = <<>> /\ tts.active = 0 /\ ~tts.isProcessing

\* a timer scheduled before the stop fired after it, the late event of the
\* utterance that the stop cancelled being still to come, and nothing was
\* spoken
C12_Witness ==
    /\ lastOp = "timer"
    /\ tts.resetBy = "stop" /\ tts.received = <<>>
    /\ tts.late > 0
    /\ tts.spoken = <<>> /\ tts.active = 0

(***************************************************************************)
(* Claims about the failures of the transport.                             *)
(***************************************************************************)
\* C13: a failure of the transport that is no cancellation (the response is
\* not ok, it has no body, fetch or a read rejects) is reported by exactly
\* one onError call; after it no event is given to onEvent and onComplete is
\* not called; onError and onComplete are never both called for one
\* analyzeStream call.
C13_FailureReportedOnce ==
    [][\A i \in 1..Len(streams) :
          LET st == streams[i]
              next == streams'[i]
          IN /\ lastOp' \in {"fetchFail", "readFail"} /\ next # st =>
                    /\ next.onErrorCalls = st.onErrorCalls + 1
                    /\ next.phase = "failed"
                    /\ next.emitted = st.emitted
             /\ next.phase = "failed" =>
                    next.onErrorCalls = 1 /\ next.onCompleteCalls = 0
             /\ next.onErrorCalls + next.onCompleteCalls <= 1
             /\ st.phase = "failed" =>
                    /\ next.emitted = st.emitted
                    /\ next.onErrorCalls = st.onErrorCalls
                    /\ next.onCompleteCalls = st.onCompleteCalls]_vars

\* a read failed in the middle of a body, after an event
C13_Witness ==
    \E i \in 1..Len(streams) :
        /\ lastOp = "readFail"
        /\ streams[i].phase = "failed"
        /\ streams[i].emitted # <<>>
        /\ streams[i].pos < Len(Bodies[streams[i].response])
        /\ streams[i].onErrorCalls = 1
        /\ streams[i].onCompleteCalls = 0

(***************************************************************************)
(* Claims about the turns of a conversation.                               *)
(***************************************************************************)
\* C14: when handleSubmit starts the analysis of a new turn, the buffer of
\* the controller is empty and its mode is Idle (no streaming mode, nothing
\* being dispatched, the engine silent), whatever way the turn before ended.
C14_NewTurnStartsIdle ==
    lastOp = "submitAgain" =>
        /\ tts.pendingText = <<>>
        /\ ~tts.isStreamingMode
        /\ ~tts.isProcessing
        /\ tts.active = 0

(***************************************************************************)
(* Claims about stop as an operation.                                      *)
(***************************************************************************)
\* C15: stop is idempotent and may be called in every reachable state,
\* whether something is being spoken or not: the state of the controller and
\* of the engine after stop(); stop() is the state after one stop().
C15_StopIdempotent ==
    \A n \in LateChoices(tts) :
        LET once == stop(tts, n)
        IN \A m \in LateChoices(once) : stop(once, m) = once

\* stop was called while an utterance was being spoken and a continuation
\* timer was pending, and a second stop leaves the state as it is
C15_Witness ==
    /\ lastOp = "stop"
    /\ tts.late > 0
    /\ tts.timers # <<>>
    /\ tts.pendingText = <<>> /\ tts.active = 0
    /\ stop(tts, 0) = tts

(***************************************************************************)
(* Claims about the text functions.                                        *)
(***************************************************************************)
\* the indices of the terminators of the text
TerminatorsAt(text) == {i \in 1..Len(text) : text[i] \in Terminators}

\* C16: when the buffer has a terminator, the sentence taken from it is the
\* trimmed text up to and including the first terminator and the new buffer
\* is what follows that terminator and the whitespace after it ("Hello
\* world. More text" gives "Hello world." and "More text"); when it has
\* none, no sentence is taken and the buffer is left as it is.
C16_ExtractSentence ==
    [][lastOp' = "processText" =>
          LET text == tts.pendingText
              m == sentenceMatch(text)
              ends == TerminatorsAt(text)
          IN IF ends # {}
             THEN LET first == CHOOSE i \in ends : \A j \in ends : i <= j IN
                  /\ m.found
                  /\ m.sentence = Trim(SubSeq(text, 1, first))
                  /\ m.remainder = TrimStart(Slice(text, first))
                  /\ text = HelloWorld =>
                        /\ m.sentence = SubSeq(HelloWorld, 1, 12)
                        /\ m.remainder = SubSeq(HelloWorld, 14, 22)
                  /\ ~tts.isProcessing /\ cleanTextForSpeech(m.sentence) # <<>> =>
                        /\ tts'.pendingText = m.remainder
                        /\ tts'.spoken =
                              Append(tts.spoken, cleanTextForSpeech(m.sentence))
             ELSE /\ ~m.found
                  /\ m.remainder = text
                  /\ tts.isStreamingMode => tts'.pendingText = text]_vars

\* processText took "Hello world." from the buffer "Hello world. More text"
\* and left "More text"
C16_Witness ==
    /\ lastOp = "processText"
    /\ tts.received = HelloWorld
    /\ tts.spoken = <<SubSeq(HelloWorld, 1, 12)>>
    /\ tts.pendingText = SubSeq(HelloWorld, 14, 22)

\* C17: cleanTextForSpeech removes the symbols and the emphasis markup, turns
\* every run of two or more dashes or underscores into one space, removes
\* the bullet markers at the line starts, collapses the whitespace and
\* trims: the text "**Warning:** check _this_ (U+2014) now" becomes
\* "Warning: check this now", and a run of dashes and underscores between
\* two letters becomes the one space between them.
C17_CleanForSpeech ==
    LET text == tts.pendingText IN
    /\ text = WarningText =>
          cleanTextForSpeech(text) =
            <<"W", "a", "r", "n", "i", "n", "g", ":", " ", "c", "h", "e", "c",
              "k", " ", "t", "h", "i", "s", " ", "n", "o", "w">>
    /\ /\ Len(text) >= 4
       /\ text[1] = "a" /\ text[Len(text)] = "a"
       /\ \A i \in 2..(Len(text) - 1) : text[i] \in DashChars
       => cleanTextForSpeech(text) = <<"a", " ", "a">>

(***************************************************************************)
(* Claims about the voice selection.                                       *)
(***************************************************************************)
\* the least number of a non-empty set of numbers
Least(S) == CHOOSE i \in S : \A j \in S : i <= j

\* the name or the voiceURI of the voice is the preferred name
ExactMatch(v, preferred) == v.name = preferred \/ v.voiceURI = preferred

\* the places in the catalog of the voices of each tier; a voice matches a
\* preferred name by bearing it (exact) or by containing it
TierPlaces(voices, exact) ==
    LET places == 1..Len(voices)
        Match(v, preferred) ==
            IF exact THEN ExactMatch(v, preferred)
            ELSE MatchesPreferred(v, preferred)
        ranks == {k \in 1..Len(preferredVoices) :
                    \E i \in places : Match(voices[i], preferredVoices[k])}
    IN <<IF ranks = {} THEN {}
         ELSE {i \in places : Match(voices[i], preferredVoices[Least(ranks)])},
         {i \in places : IsEnhancedMale(voices[i])},
         {i \in places : IsMale(voices[i])},
         {i \in places : IsEnglish(voices[i])},
         places>>

\* the first voice of the first tier that has one
RankedSelection(voices, exact) ==
    LET tiers == TierPlaces(voices, exact) IN
    IF voices = <<>> THEN NoVoice
    ELSE voices[Least(tiers[Least({t \in 1..5 : tiers[t] # {}})])]

\* C18 as stated: the voice of an utterance is the first voice of the first
\* tier that has a match, the tiers being (1) the voices whose name or
\* voiceURI is the best-ranked name of the preference list that any voice
\* bears, (2) the English voices with a male and a quality indicator in the
\* name, (3) the English voices with a male indicator, (4) the English
\* voices, (5) all voices; no voice is chosen only when the catalog is empty.
C18_RankedSelection_AsStated ==
    [][Len(tts'.spoken) > Len(tts.spoken) =>
          /\ tts'.voice = RankedSelection(tts.availableVoices, TRUE)
          /\ tts'.voice = NoVoice <=> tts.availableVoices = <<>>]_vars

\* C18: as above, with tier (1) the voices whose name or voiceURI contains
\* the best-ranked name of the preference list that any voice contains.
C18_RankedSelection ==
    [][Len(tts'.spoken) > Len(tts.spoken) =>
          /\ tts'.voice = RankedSelection(tts.availableVoices, FALSE)
          /\ tts'.voice = NoVoice <=> tts.availableVoices = <<>>]_vars

\* an utterance was given the first voice of a catalog of two, a voice that
\* is not English and only contains a preferred name, the second voice
\* being English
C18_Witness ==
    /\ lastOp = "processText"
    /\ tts.active > 0
    /\ Len(tts.availableVoices) = 2
    /\ tts.voice = tts.availableVoices[1]
    /\ tts.voice = getBestVoice(tts.availableVoices)
    /\ ~IsEnglish(tts.availableVoices[1])
    /\ \A k \in 1..Len(preferredVoices) :
          ~ExactMatch(tts.availableVoices[1], preferredVoices[k])
    /\ IsEnglish(tts.availableVoices[2])

(***************************************************************************)
(* Claims about the errors of the engine and about the modes.              *)
(***************************************************************************)
\* the buffer, the mode, the dispatching flag and isSpeaking
ControllerState(s) ==
    <<s.pendingText, s.isStreamingMode, s.isProcessing, s.isSpeaking>>

\* C19: an error of the engine on an utterance leaves the controller as the
\* completion of that utterance would: the same buffer, mode, dispatching
\* flag and isSpeaking when the completion waits or finds the buffer empty,
\* and, when the completion continues with the next sentence, what that
\* continuation leaves.
C19_ErrorAsCompletion ==
    [][lastOp' = "onerror" /\ tts.active > 0 =>
          LET ended == [tts EXCEPT !.active = @ - 1]
              completed == onend(ended)
          IN IF Len(completed.timers) > Len(ended.timers)
             THEN ControllerState(tts') =
                    ControllerState(processText([completed EXCEPT
                                                   !.timers = ended.timers]))
             ELSE ControllerState(tts') = ControllerState(completed)]_vars

\* the mode is Flushing: flush or speak ended the streaming mode, and text is
\* pending or an utterance is in flight
Flushing(s) ==
    /\ ~s.isStreamingMode
    /\ s.flushed \/ s.resetBy = "speak"
    /\ Trim(s.pendingText) # <<>> \/ s.isProcessing

\* C20: speakToken never takes the controller out of Flushing: called in
\* that mode, it appends the token and the mode stays Flushing.
C20_FeedKeepsFlushing ==
    [][lastOp' = "feedToken" /\ Flushing(tts) =>
          /\ ~tts'.isStreamingMode
          /\ \E token \in Tokens : tts'.received = tts.received \o token]_vars

(***************************************************************************)
(* Claims about the buffer and the flags of the controller.                *)
(***************************************************************************)
\* the text without its whitespace
NoWhitespace(text) == RemoveChars(text, Whitespace)

\* C21 as stated: the sentences given to the engine since the last
\* stop/speak, followed by the buffer, are the text received since then,
\* nothing dropped and nothing added.
C21_BufferIsUndispatched_AsStated ==
    tts.taken \o tts.pendingText = tts.received

\* C21: the sentences given to the engine since the last stop/speak,
\* followed by the buffer, are the text received since then with the periods
\* that flush and speak appended to it, up to the whitespace that the
\* sentence match and the trim took away.
C21_BufferIsUndispatched ==
    NoWhitespace(tts.taken \o tts.pendingText) = NoWhitespace(tts.fed)

\* two sentences of the text received were given to the engine and a third
\* is waiting in the buffer
C21_Witness ==
    /\ Len(tts.spoken) = 2
    /\ tts.taken # <<>>
    /\ Trim(tts.pendingText) # <<>>
    /\ tts.fed = tts.received
    /\ Len(NoWhitespace(tts.taken)) < Len(NoWhitespace(tts.received))
    /\ NoWhitespace(tts.taken \o tts.pendingText) = NoWhitespace(tts.received)

(***************************************************************************)
(* Claims about the kinds of the events.                                   *)
(***************************************************************************)
RECURSIVE KindedEvents(_, _)
\* the events of the frames, each data line with a payload that parses
\* under the kind of the last event line that no data line followed
\* (pending), message when there is none
KindedEvents(frames, pending) ==
    IF frames = <<>> THEN <<>>
    ELSE LET f == Head(frames)
             kind == IF f.kind # <<>> THEN f.kind ELSE pending
         IN IF f.payload = NoPayload THEN KindedEvents(Tail(frames), kind)
            ELSE (IF JsonValid(f.payload)
                  THEN <<[event |-> IF kind # <<>> THEN kind ELSE MessageWord,
                          data |-> JSONparse(f.payload)]>>
                  ELSE <<>>) \o KindedEvents(Tail(frames), <<>>)

\* C22: every data line is emitted with the kind of the most recent event
\* line that no data line followed, and every data line, well-formed or
\* malformed, resets the pending kind: a data line with no event line since
\* the data line before it is emitted with the kind message.
C22_KindOfPendingEventLine ==
    \A i \in 1..Len(streams) :
        LET st == streams[i]
            expected == KindedEvents(CompleteFrames(Responses[st.response]), <<>>)
        IN /\ IsPrefix(st.emitted, expected)
           /\ st.phase = "done" => st.emitted = expected

\* the body with the malformed text payload was read to its end: the data
\* line after the malformed one was emitted as a message, and the frame
\* after the lone start line as progress
C22_Witness ==
    \E i \in 1..Len(streams) :
        /\ streams[i].phase = "done"
        /\ streams[i].response = 6
        /\ streams[i].emitted =
               <<[event |-> MessageWord, data |-> TextWord :> <<"x">>],
                 [event |-> ProgressWord, data |-> <<>>]>>

RECURSIVE Dispatched(_, _, _)
\* what the events leave of the controller and the message list, r holding
\* both: a text event with a token is a speakToken call when feeds (a flag
\* of r) is set, a complete event is one more assistant message and one
\* flush call, any other event is nothing
Dispatched(r, events, k) ==
    IF k > Len(events) THEN r
    ELSE LET ev == events[k]
             token == Field(ev.data, TextWord)
         IN Dispatched(
                IF ev.event = TextWord /\ token # <<>> /\ r.feeds
                THEN [r EXCEPT !.tts = speakToken(@, token)]
                ELSE IF ev.event = CompleteWord
                THEN [r EXCEPT !.tts = flush(@),
                               !.messages =
                                   Append(@, [role |-> "assistant",
                                              content |-> Field(ev.data,
                                                                HypothesisWord)])]
                ELSE r,
                events, k + 1)

\* the events that the step gave to the callback of the stream i of the
\* orchestrator
Arrived(i) ==
    SubSeq(streams'[i].emitted, Len(streams[i].emitted) + 1,
           Len(streams'[i].emitted))

\* the step is a turn of the read loop of the stream i of the orchestrator
ChatRead(i) ==
    /\ Len(streams') = Len(streams)
    /\ streams[i].chat
    /\ streams'[i].pos > streams[i].pos

\* the step changed nothing of the orchestrator but the progress state, and
\* nothing of the controller
OnlyProgress == tts' = tts /\ chat' = [chat EXCEPT !.progress = chat'.progress]

\* C23 as stated: start and progress events change only the progress state;
\* every text event with a non-empty token is a feedToken call with that
\* token, in arrival order; a complete event appends the assistant message
\* and calls flush once.
C23_OrchestratorDispatch_AsStated ==
    [][\A i \in 1..Len(streams) : ChatRead(i) =>
          LET r == Dispatched([tts |-> tts, messages |-> chat.messages,
                               feeds |-> TRUE], Arrived(i), 1)
          IN /\ tts' = r.tts
             /\ chat'.messages = r.messages
             /\ (\A k \in 1..Len(Arrived(i)) :
                    Arrived(i)[k].event \in {StartWord, ProgressWord})
                => OnlyProgress]_vars

\* C23: start and progress events change only the progress state; when
\* text-to-speech was enabled at the submit of the analysis, every text
\* event with a non-empty token is a feedToken call with that token, in
\* arrival order, and otherwise a text event leaves the controller as it
\* is; a complete event appends the assistant message and calls flush once.
C23_OrchestratorDispatch ==
    [][\A i \in 1..Len(streams) : ChatRead(i) =>
          LET r == Dispatched([tts |-> tts, messages |-> chat.messages,
                               feeds |-> streams[i].ttsEnabled], Arrived(i), 1)
          IN /\ tts' = r.tts
             /\ chat'.messages = r.messages
             /\ (\A k \in 1..Len(Arrived(i)) :
                    Arrived(i)[k].event \in {StartWord, ProgressWord})
                => OnlyProgress]_vars

\* the analysis that completes was read to its complete event with
\* text-to-speech enabled and no stop: the controller received both tokens
\* in order, flush was called, and the list holds the user message and the
\* assistant message
C23_Witness ==
    /\ lastOp = "completeEvent"
    /\ Len(streams) = 1
    /\ streams[1].ttsEnabled
    /\ Len(streams[1].emitted) = 4
    /\ tts.received = <<"a", ".", " ", "a">>
    /\ tts.flushed
    /\ Len(chat.messages) = 2
    /\ chat.messages[2].role = "assistant"

\* the raw text of the utterance that the step gave to the engine, <<>> when
\* it gave none or did so in a speak call (which starts the record anew)
NewlyTaken ==
    IF lastOp' # "speakNow" /\ Len(tts'.taken) > Len(tts.taken)
    THEN Slice(tts'.taken, Len(tts.taken))
    ELSE <<>>

\* C24: while the mode is Streaming, every utterance given to the engine is a
\* complete sentence: its raw text ends with a terminator, holds no other
\* terminator, and the buffer keeps the fragment after it.
C24_StreamingSpeaksSentences ==
    [][tts'.isStreamingMode /\ NewlyTaken # <<>> =>
          /\ TerminatorsAt(NewlyTaken) = {Len(NewlyTaken)}
          /\ NoWhitespace(tts'.taken \o tts'.pendingText) = NoWhitespace(tts'.fed)]_vars

\* in Streaming mode a sentence was spoken and the fragment fed after it is
\* held unspoken in the buffer, the engine being idle and no timer pending
C24_Witness ==
    /\ tts.isStreamingMode
    /\ tts.taken = <<".">>
    /\ tts.pendingText = <<"a">>
    /\ tts.spoken = <<<<".">>>>
    /\ tts.active = 0 /\ tts.late = 0
    /\ tts.timers = <<>>

\* C25: the isSpeaking flag is not left stuck: when no utterance is in
\* flight (none active, no event of a cancelled one still to come) and no
\* continuation timer is pending, isSpeaking is false.
C25_SpeakingNotStuck ==
    tts.active = 0 /\ tts.late = 0 /\ tts.timers = <<>> => ~tts.isSpeaking

\* C26: the dispatching flag is true exactly when an utterance issued by the
\* controller is active in the engine; a late onend/onerror of a cancelled
\* utterance does not clear it while a newer utterance is in flight.
C26_ProcessingIffActive == tts.isProcessing <=> tts.active > 0

\* C27: while text-to-speech is switched off, the orchestrator causes no
\* utterance to be given to the engine: neither a text event of the running
\* stream nor the flush of its complete event starts speech.
C27_DisabledIsSilent ==
    [][\A i \in 1..Len(streams) :
          ChatRead(i) /\ ~chat.ttsEnabled => tts'.spoken = tts.spoken]_vars

\* the analysis streams that are live: started, neither ended nor aborted
LiveStreams ==
    {i \in 1..Len(streams) :
        /\ streams[i].chat
        /\ streams[i].phase \in {"fetching", "reading"}
        /\ ~streams[i].aborted}

\* C28: at most one analysis stream is live at any time, and while a stream
\* is live the stored cancellation handle (abortRef) aborts that stream.
C28_OneLiveStream ==
    /\ Cardinality(LiveStreams) <= 1
    /\ \A i \in LiveStreams : chat.abortRef = i

\* C29: every started analysis leaves the in-progress state without user
\* action: once the stream has ended (onComplete was called) or failed
\* (onError was called), isAnalyzing eventually becomes false.
C29_AnalysisEnds ==
    (streams # <<>> /\ streams[1].phase \in {"done", "failed"})
        ~> ~chat.isAnalyzing

\* C30: no well-formed frame is lost at the end of the stream: when
\* onComplete is called, every data line with a payload that parses has
\* given its event, a last line without a line end included.
C30_NoFrameLostAtEnd ==
    \A i \in 1..Len(streams) :
        streams[i].phase = "done" =>
            streams[i].emitted =
                KindedEvents(Responses[streams[i].response].frames, <<>>)

====
